---- MODULE Spec2Model ----
(***************************************************************************)
(* Directory scan and size aggregation of mohtzz/filesystem.               *)
(*                                                                         *)
(* Two front ends share the core: the JSON API (src/main.go) and the web   *)
(* page (src/unnamed/part_000).  A request is validated, the root is       *)
(* listed, one goroutine per child sizes the child and appends a FileInfo  *)
(* to a shared slice under a mutex, the coordinator waits on a WaitGroup,  *)
(* the slice is sorted and rendered.                                       *)
(*                                                                         *)
(* A path is a sequence of names; filepath.Join is Append and              *)
(* filepath.Base is the last name.  A filesystem is a function from the    *)
(* existing paths to nodes [isDir, size, err]; err names the system call   *)
(* that fails on the node: "lstat" (stat of the node, which is also what   *)
(* DirEntry.Info performs) or "readdir" (listing of a directory).          *)
(***************************************************************************)
EXTENDS Integers, Sequences, FiniteSets, TLC

\* Bound: entries of the filesystem beneath the root.
MaxNodes == 3

\* Bound: length of the entry lists handed to sortFileList on its own.
MaxLen == 3

\* Bound: largest power of 1000 of the byte counts handed to convertSize on
\* its own.
MaxExp == 5

Names == {"a", "b"}

\* os.ReadDir and filepath.Walk visit names in lexical order.
NameOrder == <<"a", "b">>

RootName == "r"

RootPath == <<RootName>>

FileSizes == {1, 2}

DirSizes == {4}

FileNodes == [isDir : {FALSE}, size : FileSizes, err : {"none", "lstat"}]

DirNodes == [isDir : {TRUE}, size : DirSizes, err : {"none", "lstat", "readdir"}]

VARIABLES
    fs,            \* the filesystem
    mode,          \* front end serving the request: "json" or "web"
    rootParam,     \* query parameter root
    sortParam,     \* query parameter sort
    dirPath,       \* handleFileSystem: dirPath
    sortType,      \* handleFileSystem: sortType
    hpc,           \* position of handleFileSystem
    response,      \* what the handler wrote to the client
    filesAndDirs,  \* listDirByReadDir: the listing of the root
    idx,           \* listDirByReadDir: next child of the range loop
    wg,            \* listDirByReadDir: the WaitGroup counter
    mu,            \* listDirByReadDir: the task holding the mutex, 0 when free
    fileList,      \* listDirByReadDir: the shared slice, then the handler's
    tpc,           \* position of each child task
    tval,          \* each task's parameter val (the child's name)
    tinfo,         \* each task's local fileInfo
    tsnap,         \* each task's read of the slice header inside append
    ret,           \* what listDirByReadDir returned
    calls,         \* which of the scan operations the request has started
    totalSize,     \* web page: getDirSize of the root
    post,          \* web page: the statistics POST
    szPath,        \* getDirSize on its own: the argument
    szRet,         \* getDirSize on its own: the walk's outcome and the result
    sortIn,        \* sortFileList on its own: the argument
    sortOut,       \* sortFileList on its own: the slice afterwards
    cvIn,          \* convertSize on its own: the argument
    cvOut,         \* convertSize on its own: the loop's counter and the results
    proc           \* the server process: running, stopping, exited or killed

reqVars == <<mode, rootParam, sortParam, dirPath, sortType, hpc, response, totalSize, post, calls>>

scanVars == <<filesAndDirs, idx, wg, mu, fileList, tpc, tval, tinfo, tsnap, ret>>

sizeVars == <<szPath, szRet>>

sortVars == <<sortIn, sortOut>>

convVars == <<cvIn, cvOut>>

vars == <<fs, reqVars, scanVars, sizeVars, sortVars, convVars, proc>>

-----------------------------------------------------------------------------
(* Paths and filesystems                                                   *)

Base(p) == p[Len(p)]

Join(p, name) == Append(p, name)

IsPrefix(p, q) == Len(p) <= Len(q) /\ SubSeq(q, 1, Len(p)) = p

Exists(f, p) == p \in DOMAIN f

\* Names of the entries of directory p, in lexical order.
Listing(f, p) == SelectSeq(NameOrder, LAMBDA n : Exists(f, Join(p, n)))

\* One more entry under a directory of f that exists.
Extend(f) ==
    UNION { { f @@ (Join(p, n) :> node) :
                n \in {m \in Names : ~Exists(f, Join(p, m))},
                node \in FileNodes \cup DirNodes } :
            p \in {d \in DOMAIN f : f[d].isDir /\ f[d].err # "lstat"} }

RECURSIVE TreesUpTo(_)
TreesUpTo(n) ==
    IF n = 0
    THEN { (RootPath :> node) : node \in DirNodes }
    ELSE LET smaller == TreesUpTo(n - 1)
         IN  smaller \cup UNION { Extend(f) : f \in smaller }

FileSystems == TreesUpTo(MaxNodes)

-----------------------------------------------------------------------------
(* getDirSize                                                              *)

\* The callback handed to filepath.Walk: acc is the captured variable size,
\* q the visited path, lerr the error Walk passes in.
walkFn(f, path, q, lerr, acc) ==
    IF lerr
    THEN [err |-> TRUE, size |-> acc]
    ELSE IF f[q].isDir
         THEN IF Base(q) # Base(path)
              THEN [err |-> FALSE, size |-> acc + f[q].size]
              ELSE [err |-> FALSE, size |-> acc]
         ELSE [err |-> FALSE, size |-> acc + f[q].size]

RECURSIVE walk(_, _, _, _)
RECURSIVE walkNames(_, _, _, _, _)

\* filepath.walk on q, whose lstat succeeded: the callback sees q (with the
\* error of listing it, if any) before any entry of q.
walk(f, path, q, acc) ==
    IF ~f[q].isDir
    THEN walkFn(f, path, q, FALSE, acc)
    ELSE LET rerr == f[q].err = "readdir"
             r1   == walkFn(f, path, q, rerr, acc)
         IN  IF rerr \/ r1.err
             THEN [err |-> r1.err, size |-> r1.size]
             ELSE walkNames(f, path, q, Listing(f, q), r1.size)

walkNames(f, path, q, names, acc) ==
    IF names = <<>>
    THEN [err |-> FALSE, size |-> acc]
    ELSE LET filename == Join(q, Head(names))
             r == IF f[filename].err = "lstat"
                  THEN walkFn(f, path, filename, TRUE, acc)
                  ELSE walk(f, path, filename, acc)
         IN  IF r.err THEN r ELSE walkNames(f, path, q, Tail(names), r.size)

\* filepath.Walk(path, callback): the error it returns and size afterwards.
Walk(f, path) ==
    IF ~Exists(f, path) \/ f[path].err = "lstat"
    THEN walkFn(f, path, path, TRUE, 0)
    ELSE walk(f, path, path, 0)

\* Mutant of getDirSize: the error branch returns size instead of 0.
getDirSizeKeepsPartial(f, path) == Walk(f, path).size

getDirSize(f, path) ==
    LET r == Walk(f, path)
    IN  IF r.err THEN 0 ELSE r.size

-----------------------------------------------------------------------------
(* sortFileList                                                            *)

\* Mutant of less: the else branch compares like the asc branch.
lessAlwaysAscending(list, i, j, t) == list[i].Size < list[j].Size

\* The comparison function handed to sort.Slice.
less(list, i, j, t) ==
    IF t = "asc"
    THEN list[i].Size < list[j].Size
    ELSE list[i].Size > list[j].Size

\* Mutant of Swap: the element at j is copied over the element at i.
SwapOverwrites(list, i, j) == [list EXCEPT ![i] = list[j]]

Swap(list, i, j) == [list EXCEPT ![i] = list[j], ![j] = list[i]]

RECURSIVE Sink(_, _, _)
\* Inner loop of the insertion sort: for j; j > a && less(j, j-1); j--.
Sink(list, j, t) ==
    IF j > 1 /\ less(list, j, j - 1, t)
    THEN Sink(Swap(list, j, j - 1), j - 1, t)
    ELSE list

RECURSIVE InsertionSort(_, _, _)
InsertionSort(list, i, t) ==
    IF i > Len(list)
    THEN list
    ELSE InsertionSort(Sink(list, i, t), i + 1, t)

\* Mutant of sortFileList: the list is left in the order it has.
sortFileListKeepsOrder(list, t) == list

\* sort.Slice sorts a slice of at most 12 elements by insertion, which is
\* the range of lengths of this model.
sortFileList(list, t) == InsertionSort(list, 2, t)

-----------------------------------------------------------------------------
(* Initial states                                                          *)

NoTasks == <<>>

Nil == <<>>

NoResponse == [status |-> 0, kind |-> "none", msg |-> "", body |-> Nil]

IdleRequest ==
    /\ mode = "none"
    /\ rootParam = ""
    /\ sortParam = ""
    /\ dirPath = ""
    /\ sortType = ""
    /\ hpc = "idle"
    /\ response = NoResponse
    /\ totalSize = 0
    /\ post = "none"
    /\ calls = {}

IdleScan ==
    /\ filesAndDirs = <<>>
    /\ idx = 0
    /\ wg = 0
    /\ mu = 0
    /\ fileList = Nil
    /\ tpc = NoTasks
    /\ tval = NoTasks
    /\ tinfo = NoTasks
    /\ tsnap = NoTasks
    /\ ret = [returned |-> FALSE, list |-> Nil, err |-> FALSE]

IdleSize ==
    /\ szPath = <<>>
    /\ szRet = [called |-> FALSE, err |-> FALSE, partial |-> 0, size |-> 0]

IdleSort ==
    /\ sortIn = [list |-> <<>>, sortType |-> ""]
    /\ sortOut = [called |-> FALSE, list |-> <<>>]

IdleConvert ==
    /\ cvIn = <<0>>
    /\ cvOut = [called |-> FALSE, counter |-> 0, Size |-> 0, Unit |-> ""]

\* Mutant of Alive: the goroutines stop as soon as the signal is received.
AliveUntilSignal == proc = "running"

\* The process runs: main is in waitForShutdownSignal and has not returned.
Alive == proc \in {"running", "stopping"}

-----------------------------------------------------------------------------
(* convertSize                                                             *)

\* A byte count is written in base 1000, most significant digit first, so
\* that counts beyond the checker's integers can be told apart; division
\* and rounding are exact, as they are in float64 for the counts below 2^53
\* that are not within rounding error of a half.
RECURSIVE Digits(_)
Digits(n) ==
    IF n < 1000
    THEN <<n>>
    ELSE Append(Digits(n \div 1000), n % 1000)

RECURSIVE Divisions(_, _, _)
\* The loop of convertSize: whole is the integer part of size, frac the
\* digits after the point; size >= 1000 when whole has two digits or more.
Divisions(whole, frac, counter) ==
    IF Len(whole) > 1
    THEN Divisions(SubSeq(whole, 1, Len(whole) - 1),
                   <<whole[Len(whole)]>> \o frac, counter + 1)
    ELSE [whole |-> whole[1], frac |-> frac, counter |-> counter]

\* The switch of convertSize; the unit names are those of the source,
\* in English.
UnitName(counter) ==
    CASE counter = 0 -> "bytes"
      [] counter = 1 -> "kilobytes"
      [] counter = 2 -> "megabytes"
      [] counter = 3 -> "gigabytes"
      [] counter = 4 -> "terabytes"
      [] OTHER -> ""

\* math.Round(size*10), half away from zero: the result in tenths.
RoundTenths(whole, frac) ==
    LET first == IF frac = <<>> THEN 0 ELSE frac[1]
    IN  10 * whole + first \div 100 + (IF first % 100 >= 50 THEN 1 ELSE 0)

\* Mutant of convertSize: the value is rounded before the test of the loop,
\* so a value that rounds up to 1000.0 is divided once more.
convertSizeRoundsFirst(size) ==
    LET r == Divisions(size, <<>>, 0)
        tenths == RoundTenths(r.whole, r.frac)
    IN  IF tenths >= 10000
        THEN [Size |-> 10, Unit |-> UnitName(r.counter + 1)]
        ELSE [Size |-> tenths, Unit |-> UnitName(r.counter)]

\* convertSize(size): the rounded size, in tenths, and the unit.
convertSize(size) ==
    LET r == Divisions(size, <<>>, 0)
    IN  [Size |-> RoundTenths(r.whole, r.frac), Unit |-> UnitName(r.counter)]

-----------------------------------------------------------------------------
(* handleFileSystem: validation                                            *)

MsgNoRoot == "no root"

MsgBadSort == "bad sort"

MsgReadError == "read error"

StatusOK == 200

StatusBadRequest == 400

StatusInternalServerError == 500

\* Mutant of badSort: only a missing sort value is rejected.
badSortOnlyMissing(s) == s = ""

\* sortType != "asc" && sortType != "desc"
badSort(s) == s # "asc" /\ s # "desc"

\* parseFlags of the web page: both error returns carry empty strings.
parseFlags(root, sort) ==
    IF root = ""
    THEN [dirPath |-> "", sortType |-> "", err |-> MsgNoRoot]
    ELSE IF badSort(sort)
         THEN [dirPath |-> "", sortType |-> "", err |-> MsgBadSort]
         ELSE [dirPath |-> root, sortType |-> sort, err |-> ""]

\* An HTTP request arrives at one of the two front ends.
Receive(m, root, sort) ==
    /\ proc = "running"
    /\ hpc = "idle"
    /\ mode' = m
    /\ rootParam' = root
    /\ sortParam' = sort
    /\ hpc' = "validate"
    /\ UNCHANGED <<fs, dirPath, sortType, response, totalSize, post, calls,
                   scanVars, sizeVars, sortVars, convVars, proc>>

\* JSON API: src/main.go lines 78-88.
ValidateJson ==
    /\ Alive
    /\ hpc = "validate"
    /\ mode = "json"
    /\ dirPath' = rootParam
    /\ sortType' = sortParam
    /\ IF rootParam = ""
       THEN /\ response' = [status |-> StatusBadRequest, kind |-> "text",
                            msg |-> MsgNoRoot, body |-> Nil]
            /\ hpc' = "done"
       ELSE IF badSort(sortParam)
            THEN /\ response' = [status |-> StatusBadRequest, kind |-> "text",
                                 msg |-> MsgBadSort, body |-> Nil]
                 /\ hpc' = "done"
            ELSE /\ response' = response
                 /\ hpc' = "scan"
    /\ UNCHANGED <<fs, mode, rootParam, sortParam, totalSize, post, calls,
                   scanVars, sizeVars, sortVars, convVars, proc>>

\* Web page: src/unnamed/part_000 lines 94-103.
ValidateWeb ==
    /\ Alive
    /\ hpc = "validate"
    /\ mode = "web"
    /\ LET pf == parseFlags(rootParam, sortParam)
       IN  /\ dirPath' = pf.dirPath
           /\ sortType' = pf.sortType
           /\ IF pf.err # ""
              THEN /\ hpc' = "done"
                   /\ IF pf.dirPath = ""
                      THEN response' = [status |-> StatusOK, kind |-> "html",
                                        msg |-> "", body |-> Nil]
                      ELSE response' = [status |-> StatusBadRequest,
                                        kind |-> "text", msg |-> pf.err,
                                        body |-> Nil]
              ELSE /\ hpc' = "scan"
                   /\ response' = response
    /\ UNCHANGED <<fs, mode, rootParam, sortParam, totalSize, post, calls,
                   scanVars, sizeVars, sortVars, convVars, proc>>

-----------------------------------------------------------------------------
(* listDirByReadDir                                                        *)

\* os.ReadDir(path): on a failure it returns the error together with the
\* entries it had read before the failure.
ReadDirResults(f, p) ==
    IF ~Exists(f, p) \/ ~f[p].isDir \/ f[p].err = "lstat"
    THEN {[err |-> TRUE, entries |-> <<>>]}
    ELSE IF f[p].err = "readdir"
         THEN {[err |-> TRUE, entries |-> SubSeq(Listing(f, p), 1, k)] :
                  k \in 0..Len(Listing(f, p))}
         ELSE {[err |-> FALSE, entries |-> Listing(f, p)]}

\* Mutant of readFailed: filesAndDirs, _ := os.ReadDir(path).
readFailedIgnored(r) == FALSE

\* if err != nil, after os.ReadDir.
readFailed(r) == r.err

\* Lines 107-116 of listDirByReadDir.
ListReadDir ==
    /\ Alive
    /\ hpc = "scan"
    /\ calls' = calls \cup {"list"}
    /\ \E r \in ReadDirResults(fs, <<dirPath>>) :
          IF readFailed(r)
          THEN /\ ret' = [returned |-> TRUE, list |-> Nil, err |-> TRUE]
               /\ hpc' = "scanned"
               /\ UNCHANGED <<filesAndDirs, idx, tpc, tval, tinfo, tsnap>>
          ELSE /\ filesAndDirs' = r.entries
               /\ idx' = 1
               /\ tpc' = [i \in 1..Len(r.entries) |-> "idle"]
               /\ tval' = [i \in 1..Len(r.entries) |-> ""]
               /\ tinfo' = [i \in 1..Len(r.entries) |-> Nil]
               /\ tsnap' = [i \in 1..Len(r.entries) |-> Nil]
               /\ hpc' = "launch"
               /\ ret' = ret
    /\ UNCHANGED <<fs, mode, rootParam, sortParam, dirPath, sortType, response,
                   totalSize, post, wg, mu, fileList, sizeVars, sortVars, convVars, proc>>

\* Mutant of LaunchedVal: the closure reads the loop variable, which the
\* loop has moved on to the last child.
LaunchedValLast(list, i) == list[Len(list)]

\* go func(val os.DirEntry) {...}(val): the task's own copy of the child.
LaunchedVal(list, i) == list[i]

\* One iteration of the range loop: wg.Add(1) and the go statement.
Launch ==
    /\ Alive
    /\ hpc = "launch"
    /\ idx <= Len(filesAndDirs)
    /\ wg' = wg + 1
    /\ tval' = [tval EXCEPT ![idx] = LaunchedVal(filesAndDirs, idx)]
    /\ tpc' = [tpc EXCEPT ![idx] = "run"]
    /\ idx' = idx + 1
    /\ UNCHANGED <<fs, reqVars, filesAndDirs, mu, fileList, tinfo, tsnap, ret,
                   sizeVars, sortVars, convVars, proc>>

\* The range loop is over.
LoopEnd ==
    /\ Alive
    /\ hpc = "launch"
    /\ idx > Len(filesAndDirs)
    /\ hpc' = "wait"
    /\ UNCHANGED <<fs, mode, rootParam, sortParam, dirPath, sortType, response,
                   totalSize, post, calls, scanVars, sizeVars, sortVars, convVars, proc>>

NewFileInfo(name, isDir, path, size) ==
    [Name |-> name, Size |-> size, Unit |-> "", IsDir |-> isDir, Path |-> path]

\* Mutant of TaskRun: the return after a failed val.Info() is missing.
TaskRunNoReturn(i) ==
    /\ Alive
    /\ tpc[i] = "run"
    /\ LET newPath == Join(<<dirPath>>, tval[i])
           node == fs[newPath]
       IN  IF node.isDir
           THEN /\ tinfo' = [tinfo EXCEPT ![i] = NewFileInfo(tval[i], TRUE,
                                newPath, getDirSize(fs, newPath))]
                /\ calls' = calls \cup {"size"}
           ELSE /\ tinfo' = [tinfo EXCEPT ![i] = NewFileInfo(tval[i], FALSE,
                                newPath,
                                IF node.err = "lstat" THEN 0 ELSE node.size)]
                /\ calls' = calls
    /\ tpc' = [tpc EXCEPT ![i] = "lock"]
    /\ UNCHANGED <<fs, mode, rootParam, sortParam, dirPath, sortType, hpc,
                   response, totalSize, post, filesAndDirs, idx, wg, mu,
                   fileList, tval, tsnap, ret, sizeVars, sortVars, convVars, proc>>

\* Mutant of TaskRun: a directory whose size comes out as 0 is left out,
\* as a file without metadata is.
TaskRunSkipsEmptyDir(i) ==
    /\ Alive
    /\ tpc[i] = "run"
    /\ LET newPath == Join(<<dirPath>>, tval[i])
           node == fs[newPath]
           size == IF node.isDir THEN getDirSize(fs, newPath)
                   ELSE IF node.err = "lstat" THEN 0 ELSE node.size
           skip == IF node.isDir THEN size = 0 ELSE node.err = "lstat"
       IN  /\ tinfo' = [tinfo EXCEPT ![i] = NewFileInfo(tval[i], node.isDir,
                                                        newPath, size)]
           /\ calls' = IF node.isDir THEN calls \cup {"size"} ELSE calls
           /\ tpc' = [tpc EXCEPT ![i] = IF skip THEN "skipexit" ELSE "lock"]
    /\ UNCHANGED <<fs, mode, rootParam, sortParam, dirPath, sortType, hpc,
                   response, totalSize, post, filesAndDirs, idx, wg, mu,
                   fileList, tval, tsnap, ret, sizeVars, sortVars, convVars, proc>>

\* Task i from its start to mu.Lock: it builds fileInfo and obtains the
\* size, or returns when val.Info() fails.
TaskRun(i) ==
    /\ Alive
    /\ tpc[i] = "run"
    /\ LET newPath == Join(<<dirPath>>, tval[i])
           node == fs[newPath]
       IN  IF node.isDir
           THEN /\ tinfo' = [tinfo EXCEPT ![i] = NewFileInfo(tval[i], TRUE,
                                newPath, getDirSize(fs, newPath))]
                /\ calls' = calls \cup {"size"}
                /\ tpc' = [tpc EXCEPT ![i] = "lock"]
           ELSE IF node.err = "lstat"
                THEN /\ tinfo' = [tinfo EXCEPT ![i] = NewFileInfo(tval[i],
                                     FALSE, newPath, 0)]
                     /\ calls' = calls
                     /\ tpc' = [tpc EXCEPT ![i] = "skipexit"]
                ELSE /\ tinfo' = [tinfo EXCEPT ![i] = NewFileInfo(tval[i],
                                     FALSE, newPath, node.size)]
                     /\ calls' = calls
                     /\ tpc' = [tpc EXCEPT ![i] = "lock"]
    /\ UNCHANGED <<fs, mode, rootParam, sortParam, dirPath, sortType, hpc,
                   response, totalSize, post, filesAndDirs, idx, wg, mu,
                   fileList, tval, tsnap, ret, sizeVars, sortVars, convVars, proc>>

\* Mutant of CanLock: the lock excludes nobody.
CanLockAlways(m) == TRUE

\* mu.Lock returns only when no task holds mu.
CanLock(m) == m = 0

\* mu.Lock()
TaskLock(i) ==
    /\ Alive
    /\ tpc[i] = "lock"
    /\ CanLock(mu)
    /\ mu' = i
    /\ tpc' = [tpc EXCEPT ![i] = "read"]
    /\ UNCHANGED <<fs, reqVars, filesAndDirs, idx, wg, fileList, tval, tinfo,
                   tsnap, ret, sizeVars, sortVars, convVars, proc>>

\* append(fileList, fileInfo) reads the slice ...
TaskAppendRead(i) ==
    /\ Alive
    /\ tpc[i] = "read"
    /\ tsnap' = [tsnap EXCEPT ![i] = fileList]
    /\ tpc' = [tpc EXCEPT ![i] = "write"]
    /\ UNCHANGED <<fs, reqVars, filesAndDirs, idx, wg, mu, fileList, tval,
                   tinfo, ret, sizeVars, sortVars, convVars, proc>>

\* ... and fileList = ... stores the slice with the entry added.
TaskAppendWrite(i) ==
    /\ Alive
    /\ tpc[i] = "write"
    /\ fileList' = Append(tsnap[i], tinfo[i])
    /\ tpc' = [tpc EXCEPT ![i] = "unlock"]
    /\ UNCHANGED <<fs, reqVars, filesAndDirs, idx, wg, mu, tval, tinfo, tsnap,
                   ret, sizeVars, sortVars, convVars, proc>>

\* mu.Unlock()
TaskUnlock(i) ==
    /\ Alive
    /\ tpc[i] = "unlock"
    /\ mu' = 0
    /\ tpc' = [tpc EXCEPT ![i] = "exit"]
    /\ UNCHANGED <<fs, reqVars, filesAndDirs, idx, wg, fileList, tval, tinfo,
                   tsnap, ret, sizeVars, sortVars, convVars, proc>>

\* Mutant of TaskDone: wg.Done() is called at the end of the function, not
\* deferred, so the early return does not reach it.
TaskDoneNotDeferred(i) ==
    /\ Alive
    /\ tpc[i] = "exit"
    /\ wg' = wg - 1
    /\ tpc' = [tpc EXCEPT ![i] = "done"]
    /\ UNCHANGED <<fs, reqVars, filesAndDirs, idx, mu, fileList, tval, tinfo,
                   tsnap, ret, sizeVars, sortVars, convVars, proc>>

\* The deferred wg.Done(), on the normal return and on the early return.
TaskDone(i) ==
    /\ Alive
    /\ tpc[i] \in {"exit", "skipexit"}
    /\ wg' = wg - 1
    /\ tpc' = [tpc EXCEPT ![i] = IF tpc[i] = "exit" THEN "done" ELSE "skipped"]
    /\ UNCHANGED <<fs, reqVars, filesAndDirs, idx, mu, fileList, tval, tinfo,
                   tsnap, ret, sizeVars, sortVars, convVars, proc>>

\* Mutant of WaitReturns: the coordinator does not wait.
WaitReturnsAtOnce(w) == TRUE

\* wg.Wait() returns when the counter is zero.
WaitReturns(w) == w = 0

\* wg.Wait() and return fileList, nil.
Wait ==
    /\ Alive
    /\ hpc = "wait"
    /\ WaitReturns(wg)
    /\ ret' = [returned |-> TRUE, list |-> fileList, err |-> FALSE]
    /\ hpc' = "scanned"
    /\ UNCHANGED <<fs, mode, rootParam, sortParam, dirPath, sortType, response,
                   totalSize, post, calls, filesAndDirs, idx, wg, mu, fileList,
                   tpc, tval, tinfo, tsnap, sizeVars, sortVars, convVars, proc>>

-----------------------------------------------------------------------------
(* handleFileSystem: after the scan                                        *)

\* Mutant of ScanFailed: the error of listDirByReadDir is not looked at and
\* the handler answers with the list it was given.
ScanFailedAnswersList ==
    /\ Alive
    /\ hpc = "scanned"
    /\ ret.err
    /\ response' = [status |-> StatusOK,
                    kind |-> IF mode = "json" THEN "json" ELSE "html",
                    msg |-> "", body |-> fileList]
    /\ hpc' = "done"
    /\ UNCHANGED <<fs, mode, rootParam, sortParam, dirPath, sortType,
                   totalSize, post, calls, scanVars, sizeVars, sortVars, convVars, proc>>

\* if err != nil after listDirByReadDir: status 500 (JSON API), or the
\* page with ErrorMsg (web page).
ScanFailed ==
    /\ Alive
    /\ hpc = "scanned"
    /\ ret.err
    /\ response' = IF mode = "json"
                   THEN [status |-> StatusInternalServerError, kind |-> "text",
                         msg |-> MsgReadError, body |-> Nil]
                   ELSE [status |-> StatusOK, kind |-> "html",
                         msg |-> MsgReadError, body |-> Nil]
    /\ hpc' = "done"
    /\ UNCHANGED <<fs, mode, rootParam, sortParam, dirPath, sortType,
                   totalSize, post, calls, scanVars, sizeVars, sortVars, convVars, proc>>

\* sortFileList(fileList, sortType), in place.
Sort ==
    /\ Alive
    /\ hpc = "scanned"
    /\ ~ret.err
    /\ fileList' = sortFileList(fileList, sortType)
    /\ hpc' = "sorted"
    /\ UNCHANGED <<fs, mode, rootParam, sortParam, dirPath, sortType, response,
                   totalSize, post, calls, filesAndDirs, idx, wg, mu, tpc,
                   tval, tinfo, tsnap, ret, sizeVars, sortVars, convVars, proc>>

\* JSON API: json.NewEncoder(w).Encode(fileList).
RespondJson ==
    /\ Alive
    /\ hpc = "sorted"
    /\ mode = "json"
    /\ response' = [status |-> StatusOK, kind |-> "json", msg |-> "",
                    body |-> fileList]
    /\ hpc' = "done"
    /\ UNCHANGED <<fs, mode, rootParam, sortParam, dirPath, sortType,
                   totalSize, post, calls, scanVars, sizeVars, sortVars, convVars, proc>>

\* Web page: the loop over fileList that rescales Size and sets Unit.
ConvertSizes ==
    /\ Alive
    /\ hpc = "sorted"
    /\ mode = "web"
    /\ fileList' = [i \in DOMAIN fileList |->
                       [fileList[i] EXCEPT
                           !.Size = convertSize(Digits(fileList[i].Size)).Size,
                           !.Unit = convertSize(Digits(fileList[i].Size)).Unit]]
    /\ hpc' = "converted"
    /\ UNCHANGED <<fs, mode, rootParam, sortParam, dirPath, sortType, response,
                   totalSize, post, calls, filesAndDirs, idx, wg, mu, tpc,
                   tval, tinfo, tsnap, ret, sizeVars, sortVars, convVars, proc>>

\* Web page: totalSize := getDirSize(dirPath).
TotalSize ==
    /\ Alive
    /\ hpc = "converted"
    /\ totalSize' = getDirSize(fs, <<dirPath>>)
    /\ calls' = calls \cup {"size"}
    /\ hpc' = "totalled"
    /\ UNCHANGED <<fs, mode, rootParam, sortParam, dirPath, sortType, response,
                   post, scanVars, sizeVars, sortVars, convVars, proc>>

\* Web page: the go statement of the statistics POST.
StartPost ==
    /\ Alive
    /\ hpc = "totalled"
    /\ post' = "inflight"
    /\ calls' = calls \cup {"post"}
    /\ hpc' = "posted"
    /\ UNCHANGED <<fs, mode, rootParam, sortParam, dirPath, sortType, response,
                   totalSize, scanVars, sizeVars, sortVars, convVars, proc>>

\* Web page: renderTemplate(w, data).
Render ==
    /\ Alive
    /\ hpc = "posted"
    /\ response' = [status |-> StatusOK, kind |-> "html", msg |-> "",
                    body |-> fileList]
    /\ hpc' = "done"
    /\ UNCHANGED <<fs, mode, rootParam, sortParam, dirPath, sortType,
                   totalSize, post, calls, scanVars, sizeVars, sortVars, convVars, proc>>

\* Mutant of PostReturns: the error of http.Post is written to the client.
PostReturnsToClient(ok) ==
    /\ Alive
    /\ post = "inflight"
    /\ post' = IF ok THEN "ok" ELSE "failed"
    /\ response' = IF ok THEN response
                   ELSE [status |-> StatusInternalServerError, kind |-> "text",
                         msg |-> MsgReadError, body |-> Nil]
    /\ UNCHANGED <<fs, mode, rootParam, sortParam, dirPath, sortType, hpc,
                   totalSize, calls, scanVars, sizeVars, sortVars, convVars, proc>>

\* http.Post returned: with a response, or with an error that is logged.
PostReturns(ok) ==
    /\ Alive
    /\ post = "inflight"
    /\ post' = IF ok THEN "ok" ELSE "failed"
    /\ UNCHANGED <<fs, mode, rootParam, sortParam, dirPath, sortType, hpc,
                   response, totalSize, calls, scanVars, sizeVars, sortVars, convVars, proc>>

-----------------------------------------------------------------------------
(* The program                                                             *)

RootParams == {"", RootName}

SortParams == {"", "asc", "desc", "up"}

Init ==
    /\ fs \in FileSystems
    /\ IdleRequest /\ IdleScan /\ IdleSize /\ IdleSort /\ IdleConvert
    /\ proc = "running"

Next ==
    \/ \E m \in {"json", "web"}, root \in RootParams, sort \in SortParams :
          Receive(m, root, sort)
    \/ ValidateJson
    \/ ValidateWeb
    \/ ListReadDir
    \/ Launch
    \/ LoopEnd
    \/ \E i \in DOMAIN tpc : TaskRun(i)
    \/ \E i \in DOMAIN tpc : TaskLock(i)
    \/ \E i \in DOMAIN tpc : TaskAppendRead(i)
    \/ \E i \in DOMAIN tpc : TaskAppendWrite(i)
    \/ \E i \in DOMAIN tpc : TaskUnlock(i)
    \/ \E i \in DOMAIN tpc : TaskDone(i)
    \/ Wait
    \/ ScanFailed
    \/ Sort
    \/ RespondJson
    \/ ConvertSizes
    \/ TotalSize
    \/ StartPost
    \/ Render
    \/ \E ok \in BOOLEAN : PostReturns(ok)

Spec == Init /\ [][Next]_vars

-----------------------------------------------------------------------------
(* The program under the Go scheduler, and its shutdown                    *)

\* A step of the goroutine of child i.
TaskStep(i) ==
    /\ i \in DOMAIN tpc
    /\ \/ TaskRun(i)
       \/ TaskLock(i)
       \/ TaskAppendRead(i)
       \/ TaskAppendWrite(i)
       \/ TaskUnlock(i)
       \/ TaskDone(i)

\* A step of the goroutine that serves the request.
HandlerStep ==
    \/ ValidateJson
    \/ ValidateWeb
    \/ ListReadDir
    \/ Launch
    \/ LoopEnd
    \/ Wait
    \/ ScanFailed
    \/ Sort
    \/ RespondJson
    \/ ConvertSizes
    \/ TotalSize
    \/ StartPost
    \/ Render

\* A goroutine that can run is run: the handler, and the task of every
\* child (a listing has at most one child per name). Nothing obliges a
\* request or a signal to arrive, the POST to return, or five seconds to
\* pass.
Fairness ==
    /\ WF_vars(HandlerStep)
    /\ \A i \in 1..Cardinality(Names) : WF_vars(TaskStep(i))

\* The scanned directory holds files and directories without children of
\* their own: the tasks see a subdirectory only through getDirSize.
InitShallow ==
    /\ Init
    /\ \A q \in DOMAIN fs : Len(q) <= 2

SpecFair == InitShallow /\ [][Next]_vars /\ Fairness

\* <-stopChan: os.Interrupt or SIGTERM is delivered; server.Shutdown is
\* called with a context of 5 seconds and the listener is closed.
Signal ==
    /\ proc = "running"
    /\ proc' = "stopping"
    /\ UNCHANGED <<fs, reqVars, scanVars, sizeVars, sortVars, convVars>>

\* server.Shutdown returns nil once no handler is active; main returns.
ShutdownReturns ==
    /\ proc = "stopping"
    /\ hpc \in {"idle", "done"}
    /\ proc' = "exited"
    /\ UNCHANGED <<fs, reqVars, scanVars, sizeVars, sortVars, convVars>>

\* The context expires while the handler is active: server.Shutdown
\* returns the error and log.Fatalf exits the process.
ShutdownTimeout ==
    /\ proc = "stopping"
    /\ hpc \notin {"idle", "done"}
    /\ proc' = "killed"
    /\ UNCHANGED <<fs, reqVars, scanVars, sizeVars, sortVars, convVars>>

NextShutdown ==
    \/ Next
    \/ Signal
    \/ ShutdownReturns
    \/ ShutdownTimeout

SpecShutdown == InitShallow /\ [][NextShutdown]_vars /\ Fairness

-----------------------------------------------------------------------------
(* getDirSize on its own                                                   *)

InitSize ==
    /\ fs \in FileSystems
    /\ IdleRequest /\ IdleScan /\ IdleSize /\ IdleSort /\ IdleConvert
    /\ proc = "running"

CallGetDirSize(p) ==
    /\ ~szRet.called
    /\ szPath' = p
    /\ szRet' = [called |-> TRUE, err |-> Walk(fs, p).err,
                 partial |-> Walk(fs, p).size, size |-> getDirSize(fs, p)]
    /\ UNCHANGED <<fs, reqVars, scanVars, sortVars, convVars, proc>>

NextSize == \E p \in {d \in DOMAIN fs : fs[d].isDir} : CallGetDirSize(p)

SpecSize == InitSize /\ [][NextSize]_vars

-----------------------------------------------------------------------------
(* sortFileList on its own                                                 *)

SortNames == {"a", "b", "c", "d"}

SortSizes == {1, 3, 5}

SortEntries == [Name : SortNames, Size : SortSizes, IsDir : BOOLEAN]

\* Entry lists of a directory: no two entries share a name.
SortLists ==
    UNION { { l \in [1..n -> SortEntries] :
                \A i, j \in 1..n : i # j => l[i].Name # l[j].Name } :
            n \in 0..MaxLen }

InitSort ==
    /\ fs = (RootPath :> [isDir |-> TRUE, size |-> 4, err |-> "none"])
    /\ IdleRequest /\ IdleScan /\ IdleSize /\ IdleConvert
    /\ proc = "running"
    /\ sortIn \in [list : SortLists, sortType : {"asc", "desc"}]
    /\ sortOut = [called |-> FALSE, list |-> <<>>]

CallSortFileList ==
    /\ ~sortOut.called
    /\ sortOut' = [called |-> TRUE,
                   list |-> sortFileList(sortIn.list, sortIn.sortType)]
    /\ UNCHANGED <<fs, reqVars, scanVars, sizeVars, sortIn, convVars, proc>>

NextSort == CallSortFileList

SpecSort == InitSort /\ [][NextSort]_vars

-----------------------------------------------------------------------------
(* convertSize on its own                                                  *)

\* Digits of the byte counts: the leading one, the one that decides the
\* rounding (on both sides of a half, and just below the next unit), and
\* the ones after it.
LeadDigits == {1, 2, 999}

RoundDigits == {0, 40, 49, 51, 949, 951, 999}

RestDigits == {0, 999}

\* The byte counts a float64 holds exactly are below 2^53, which is
\* 9,007,199,254,740,992.
Float64Exact(size) == Len(size) < 6 \/ (Len(size) = 6 /\ size[1] < 9)

ConvertInputs ==
    { size \in {<<0>>} \cup
               UNION { { <<l>> \o rest : l \in LeadDigits,
                           rest \in { r \in [1..e -> RoundDigits \cup RestDigits] :
                                         \A k \in 2..e : r[k] \in RestDigits } } :
                       e \in 0..MaxExp } :
        Float64Exact(size) }

InitConvert ==
    /\ fs = (RootPath :> [isDir |-> TRUE, size |-> 4, err |-> "none"])
    /\ IdleRequest /\ IdleScan /\ IdleSize /\ IdleSort
    /\ proc = "running"
    /\ cvIn \in ConvertInputs
    /\ cvOut = [called |-> FALSE, counter |-> 0, Size |-> 0, Unit |-> ""]

CallConvertSize ==
    /\ ~cvOut.called
    /\ cvOut' = [called |-> TRUE, counter |-> Divisions(cvIn, <<>>, 0).counter,
                 Size |-> convertSize(cvIn).Size,
                 Unit |-> convertSize(cvIn).Unit]
    /\ UNCHANGED <<fs, reqVars, scanVars, sizeVars, sortVars, cvIn, proc>>

NextConvert == CallConvertSize

SpecConvert == InitConvert /\ [][NextConvert]_vars

-----------------------------------------------------------------------------
(* Properties of the scan                                                  *)

\* The entries of the directory the request names.
Children == {q \in DOMAIN fs : Len(q) = 2 /\ q[1] = rootParam}

\* The file children whose metadata cannot be obtained.
FailedFiles == {q \in Children : ~fs[q].isDir /\ fs[q].err = "lstat"}

RootListable ==
    /\ Exists(fs, <<rootParam>>)
    /\ fs[<<rootParam>>].isDir
    /\ fs[<<rootParam>>].err = "none"

EntriesNamed(list, name) == {k \in DOMAIN list : list[k].Name = name}

Completed(i) == tpc[i] \in {"done", "skipped"}

\* C1: when the root is listed and every child's metadata is obtainable,
\* whatever the interleaving of the tasks, listDirByReadDir returns exactly
\* one entry per child: n entries, none twice, none missing.
C1_OneEntryPerChild ==
    (ret.returned /\ RootListable /\ FailedFiles = {}) =>
        /\ ~ret.err
        /\ Len(ret.list) = Cardinality(Children)
        /\ \A q \in Children :
              Cardinality(EntriesNamed(ret.list, Base(q))) = 1

\* C1 witness: two children, both returned, the second of the listing
\* appended before the first.
C1_Witness ==
    /\ ret.returned
    /\ RootListable
    /\ FailedFiles = {}
    /\ Cardinality(Children) = 2
    /\ Len(ret.list) = 2
    /\ ret.list[1].Name = filesAndDirs[2]
    /\ ret.list[2].Name = filesAndDirs[1]

\* The tasks between mu.Lock and mu.Unlock.
InCritical == {i \in DOMAIN tpc : tpc[i] \in {"read", "write", "unlock"}}

\* C2: at most one task is between mu.Lock and mu.Unlock, a task appends
\* only while it holds mu, and while the scan runs the entry of every task
\* that has appended is in the shared slice.
C2_AppendsAreExclusive ==
    /\ Cardinality(InCritical) <= 1
    /\ \A i \in InCritical : mu = i
    /\ hpc \in {"launch", "wait"} =>
          \A i \in DOMAIN tpc :
              tpc[i] \in {"unlock", "exit", "done"} =>
                  \E k \in DOMAIN fileList : fileList[k] = tinfo[i]

\* C2 witness: one task is inside append, holding mu, while another waits
\* in mu.Lock.
C2_Witness ==
    \E i, j \in DOMAIN tpc :
        /\ tpc[i] = "write"
        /\ mu = i
        /\ tpc[j] = "lock"

\* C3: once listDirByReadDir has returned, and so whenever the handler reads
\* the slice, every task launched has completed: it has appended its entry
\* or skipped, and has called wg.Done.
C3_ReturnsAfterAllTasks ==
    ret.returned =>
        /\ wg = 0
        /\ \A i \in DOMAIN tpc : Completed(i)
        /\ \A i \in DOMAIN tpc :
              tpc[i] = "done" => Cardinality(EntriesNamed(ret.list, tval[i])) >= 1

\* C3 witness: the scan has returned with one task that appended and one
\* that skipped.
C3_Witness ==
    /\ ret.returned
    /\ \E i, j \in DOMAIN tpc : tpc[i] = "done" /\ tpc[j] = "skipped"

\* C4: when the root cannot be listed, listDirByReadDir returns an error
\* and a nil slice, and has launched no task.
C4_UnlistableRootGivesError ==
    ("list" \in calls /\ ~RootListable) =>
        /\ ret.returned
        /\ ret.err
        /\ ret.list = Nil
        /\ fileList = Nil
        /\ tpc = NoTasks
        /\ wg = 0

\* C4 witness: the listing of a root that has entries failed, and the
\* handler answered with the read error.
C4_Witness ==
    /\ hpc = "done"
    /\ "list" \in calls
    /\ ~RootListable
    /\ Children # {}
    /\ ret.err
    /\ response.msg = MsgReadError

\* C5: when the metadata of some file children cannot be obtained, the scan
\* still succeeds, the result holds one entry for each other child and none
\* for those, and the response carries no error.
C5_FailedFileIsDropped ==
    (ret.returned /\ RootListable /\ FailedFiles # {}) =>
        /\ ~ret.err
        /\ Len(ret.list) = Cardinality(Children) - Cardinality(FailedFiles)
        /\ \A q \in Children \ FailedFiles :
              Cardinality(EntriesNamed(ret.list, Base(q))) = 1
        /\ \A q \in FailedFiles : EntriesNamed(ret.list, Base(q)) = {}
        /\ hpc = "done" =>
              /\ response.status = StatusOK
              /\ response.msg = ""
              /\ Len(response.body) = Len(ret.list)

\* C5 witness: of two children one is a file whose metadata failed; the
\* request is answered with the other child alone.
C5_Witness ==
    /\ hpc = "done"
    /\ RootListable
    /\ Cardinality(Children) = 2
    /\ Cardinality(FailedFiles) = 1
    /\ Len(ret.list) = 1
    /\ Len(response.body) = 1
    /\ response.status = StatusOK

-----------------------------------------------------------------------------
(* Properties of the validation                                            *)

InvalidRequest == rootParam = "" \/ sortParam \notin {"asc", "desc"}

\* C8: in both front ends a request without root, or with a sort value
\* other than asc and desc, is rejected before any scan starts: neither
\* listDirByReadDir nor getDirSize is called and no statistics POST is sent.
C8_InvalidRequestStartsNothing ==
    (hpc # "idle" /\ InvalidRequest) =>
        /\ hpc \in {"validate", "done"}
        /\ calls = {}
        /\ post = "none"
        /\ ~ret.returned
        /\ tpc = NoTasks

\* C8 witness: the web page has answered a request whose root is given and
\* whose sort value is neither asc nor desc.
C8_Witness ==
    /\ hpc = "done"
    /\ mode = "web"
    /\ rootParam # ""
    /\ sortParam = "up"
    /\ response # NoResponse

\* C9 (as claimed): in both front ends every validation failure is answered
\* with a response that carries the message of the validation error.
C9_ValidationErrorIsReported ==
    (hpc = "done" /\ InvalidRequest) =>
        response.msg = IF rootParam = "" THEN MsgNoRoot ELSE MsgBadSort

-----------------------------------------------------------------------------
(* Properties of getDirSize                                                *)

RECURSIVE SumSizes(_, _)
SumSizes(f, paths) ==
    IF paths = {}
    THEN 0
    ELSE LET q == CHOOSE x \in paths : TRUE
         IN  f[q].size + SumSizes(f, paths \ {q})

\* Everything strictly beneath p.
Beneath(f, p) == {q \in DOMAIN f : IsPrefix(p, q) /\ q # p}

\* Some system call fails on p or beneath it.
HasFault(f, p) == \E q \in DOMAIN f : IsPrefix(p, q) /\ f[q].err # "none"

\* C6 (as claimed): for a tree walked without error, getDirSize(root) is the
\* sum of the sizes of all files beneath root plus the metadata size of
\* every directory strictly beneath root, whatever their names.
C6_SizeIsSumBeneathRoot ==
    (szRet.called /\ ~HasFault(fs, szPath))
        => szRet.size = SumSizes(fs, Beneath(fs, szPath))

\* C7: if any system call of the walk fails, on the root or beneath it,
\* getDirSize returns 0 and not the sum accumulated before the failure.
C7_WalkErrorGivesZero ==
    (szRet.called /\ HasFault(fs, szPath))
        => (szRet.err /\ szRet.size = 0)

\* C7 witness: a failure two levels beneath the root, met after the walk
\* had already accumulated a positive sum.
C7_Witness ==
    /\ szRet.called
    /\ szRet.err
    /\ szRet.partial > 0
    /\ szRet.size = 0
    /\ \E q \in DOMAIN fs :
          /\ IsPrefix(szPath, q)
          /\ Len(q) >= Len(szPath) + 2
          /\ fs[q].err # "none"

-----------------------------------------------------------------------------
(* Properties of sortFileList                                              *)

RECURSIVE CountOf(_, _, _)
CountOf(e, list, i) ==
    IF i > Len(list)
    THEN 0
    ELSE (IF list[i] = e THEN 1 ELSE 0) + CountOf(e, list, i + 1)

Range(list) == {list[i] : i \in DOMAIN list}

IsPermutation(l1, l2) ==
    /\ Len(l1) = Len(l2)
    /\ \A e \in Range(l1) \cup Range(l2) : CountOf(e, l1, 1) = CountOf(e, l2, 1)

Ordered(list, t) ==
    \A i \in 1..(Len(list) - 1) :
        IF t = "asc"
        THEN list[i].Size <= list[i + 1].Size
        ELSE list[i].Size >= list[i + 1].Size

\* The list with every field but Size replaced by the entry's position.
Tagged(list) ==
    [i \in DOMAIN list |-> [Name |-> i, Size |-> list[i].Size, IsDir |-> FALSE]]

\* C10: sortFileList leaves a permutation of its input, non-decreasing in
\* size for asc and non-increasing for desc, and where each entry lands is
\* decided by the sizes and the positions of the input alone.
C10_SortIsOrderedPermutation ==
    sortOut.called =>
        /\ IsPermutation(sortIn.list, sortOut.list)
        /\ Ordered(sortOut.list, sortIn.sortType)
        /\ LET byPos == sortFileList(Tagged(sortIn.list), sortIn.sortType)
           IN  sortOut.list =
                   [k \in DOMAIN sortIn.list |-> sortIn.list[byPos[k].Name]]

\* C10 witness: the sizes 5, 1, 3 sorted into 5, 3, 1.
C10_Witness ==
    /\ sortOut.called
    /\ sortIn.sortType = "desc"
    /\ Len(sortIn.list) = 3
    /\ <<sortIn.list[1].Size, sortIn.list[2].Size, sortIn.list[3].Size>> = <<5, 1, 3>>
    /\ <<sortOut.list[1].Size, sortOut.list[2].Size, sortOut.list[3].Size>> = <<5, 3, 1>>

-----------------------------------------------------------------------------
(* Properties of convertSize                                               *)

UnitLadder == <<"bytes", "kilobytes", "megabytes", "gigabytes", "terabytes">>

\* C11 (as claimed): convertSize divides by 1000 at most 4 times, and the
\* unit it returns is one of the ladder, bytes to terabytes.
C11_AtMostFourDivisions ==
    cvOut.called =>
        /\ cvOut.counter <= 4
        /\ \E k \in DOMAIN UnitLadder : cvOut.Unit = UnitLadder[k]

\* C12: the division loop ends at the first value below 1000, one division
\* per digit beyond the first, and the rounding to one decimal comes after
\* it, so a value that rounds up to 1000.0 keeps its unit: 999 gives 999
\* bytes, 1000 gives 1.0 kilobytes and 999,999 gives 1000.0 kilobytes.
\* (Size is in tenths; x1000 is the value times 1000, cut.)
C12_RoundingFollowsTheLoop ==
    cvOut.called =>
        LET c == cvOut.counter
            x1000 == 1000 * cvIn[1] + (IF Len(cvIn) > 1 THEN cvIn[2] ELSE 0)
        IN  /\ c = Len(cvIn) - 1
            /\ 100 * cvOut.Size - 50 <= x1000
            /\ x1000 < 100 * cvOut.Size + 50
            /\ c <= 4 => cvOut.Unit = UnitLadder[c + 1]
            /\ cvIn = <<999>> => (cvOut.Size = 9990 /\ cvOut.Unit = "bytes")
            /\ cvIn = <<1, 0>> => (cvOut.Size = 10 /\ cvOut.Unit = "kilobytes")
            /\ cvIn = <<999, 999>> =>
                  (cvOut.Size = 10000 /\ cvOut.Unit = "kilobytes")

\* C12 witness: 999,999 bytes came out as 1000.0 kilobytes.
C12_Witness ==
    /\ cvOut.called
    /\ cvIn = <<999, 999>>
    /\ cvOut.Size = 10000
    /\ cvOut.Unit = "kilobytes"

-----------------------------------------------------------------------------
(* Properties of the entries after they are appended                       *)

\* Every entry of list is an entry of list2, field for field.
EntriesKept(list, list2) ==
    \A k \in DOMAIN list : \E j \in DOMAIN list2 : list2[j] = list[k]

\* Every entry of list is in list2 with the same Name, IsDir and Path.
IdentityKept(list, list2) ==
    \A k \in DOMAIN list : \E j \in DOMAIN list2 :
        /\ list2[j].Name = list[k].Name
        /\ list2[j].IsDir = list[k].IsDir
        /\ list2[j].Path = list[k].Path

\* A task that has left its first step has built its fileInfo.
Sized(i) == tpc[i] \notin {"idle", "run"}

\* C13 as stated: once an entry is in fileList, no step of any task or of
\* the request handler changes any of its fields.
C13_EntriesNeverRewritten == [][EntriesKept(fileList, fileList')]_vars

\* C13, amended: a task writes the size of its fileInfo once, before the
\* append, and appends exactly that fileInfo; no task changes an entry of
\* fileList; the handler changes none in JSON mode, and in web page mode it
\* rewrites Size and Unit of the entries in the one step after sorting,
\* keeping Name, IsDir and Path.
C13_OnlyRescalingRewrites ==
    [][/\ \A i \in DOMAIN tpc :
             /\ Sized(i) => tinfo'[i] = tinfo[i]
             /\ (tpc[i] = "write" /\ tpc'[i] = "unlock") =>
                    /\ Len(fileList') = Len(fileList) + 1
                    /\ fileList'[Len(fileList')] = tinfo[i]
       /\ IdentityKept(fileList, fileList')
       /\ (mode = "json" \/ hpc # "sorted") => EntriesKept(fileList, fileList')
       /\ (mode = "web" /\ hpc = "sorted" /\ hpc' # hpc) =>
             \A k \in DOMAIN fileList :
                 /\ fileList'[k].Size = convertSize(Digits(fileList[k].Size)).Size
                 /\ fileList'[k].Unit = convertSize(Digits(fileList[k].Size)).Unit
      ]_vars

\* The web handler has rescaled two appended entries: they differ from what
\* the scan returned.
C13_Witness ==
    /\ mode = "web"
    /\ hpc = "converted"
    /\ Len(fileList) = 2
    /\ Len(ret.list) = 2
    /\ \A k \in DOMAIN fileList : fileList[k].Unit = "bytes"
    /\ \A k \in DOMAIN ret.list : ret.list[k].Unit = ""
    /\ ~EntriesKept(ret.list, fileList)

-----------------------------------------------------------------------------
(* Properties of the tasks under shutdown                                  *)

\* Task i has been started by the go statement.
Launched(i) == i \in DOMAIN tpc /\ tpc[i] # "idle"

\* Task i has returned: its entry is appended, or it was skipped.
Finished(i) == i \in DOMAIN tpc /\ tpc[i] \in {"done", "skipped"}

\* C14 as stated: a launched task always runs to completion, whatever
\* happens, the shutdown signal and the shutdown timeout included.
C14_TaskAlwaysCompletes ==
    \A i \in 1..Cardinality(Names) : [](Launched(i) => <>Finished(i))

\* C14, amended: a launched task runs to completion, also after the
\* shutdown signal, unless the 5-second shutdown timeout expires while the
\* handler is still active and log.Fatalf ends the process.
C14_TaskCompletesUnlessKilled ==
    \A i \in 1..Cardinality(Names) :
        [](Launched(i) => <>(Finished(i) \/ proc = "killed"))

\* The signal has been received and the scan has nevertheless run to its
\* end: both tasks have returned and wg.Wait can return.
C14_Witness ==
    /\ proc = "stopping"
    /\ hpc = "wait"
    /\ Len(tpc) = 2
    /\ \A i \in DOMAIN tpc : Finished(i)
    /\ wg = 0

-----------------------------------------------------------------------------
(* Properties of the responses                                             *)

\* The entry the scan is to produce for child q of the root.
ExpectedEntry(q) ==
    NewFileInfo(q[2], fs[q].isDir, q,
                IF fs[q].isDir THEN getDirSize(fs, q) ELSE fs[q].size)

\* The entries the scan is to produce: one per child, less the files whose
\* metadata cannot be obtained.
ExpectedEntries == {ExpectedEntry(q) : q \in Children \ FailedFiles}

\* The list as the web page shows it: every size rescaled by convertSize.
Rescaled(list) ==
    [k \in DOMAIN list |->
        [list[k] EXCEPT !.Size = convertSize(Digits(list[k].Size)).Size,
                        !.Unit = convertSize(Digits(list[k].Size)).Unit]]

\* C15: in JSON API mode nothing is answered before the handler's end and
\* the answer, once given, stays; it is status 400 with a text when root is
\* missing or sort is not asc or desc, status 500 with a text when the root
\* cannot be listed, and otherwise status 200 with the scan's entries as
\* JSON, sorted, their sizes the byte counts of the scan without a unit.
C15_JsonOneOutcome ==
    /\ [](mode = "json" =>
            /\ hpc # "done" => response = NoResponse
            /\ hpc = "done" =>
                 IF rootParam = ""
                 THEN response = [status |-> StatusBadRequest, kind |-> "text",
                                  msg |-> MsgNoRoot, body |-> Nil]
                 ELSE IF sortParam \notin {"asc", "desc"}
                 THEN response = [status |-> StatusBadRequest, kind |-> "text",
                                  msg |-> MsgBadSort, body |-> Nil]
                 ELSE IF ~RootListable
                 THEN response = [status |-> StatusInternalServerError,
                                  kind |-> "text", msg |-> MsgReadError,
                                  body |-> Nil]
                 ELSE /\ response.status = StatusOK
                      /\ response.kind = "json"
                      /\ response.msg = ""
                      /\ IsPermutation(response.body, ret.list)
                      /\ Ordered(response.body, sortParam)
                      /\ Range(response.body) = ExpectedEntries
                      /\ \A k \in DOMAIN response.body :
                             response.body[k].Unit = "")
    /\ [][response # NoResponse => response' = response]_vars

\* A JSON request answered with two entries that the sort had to exchange.
C15_Witness ==
    /\ mode = "json"
    /\ hpc = "done"
    /\ response.status = StatusOK
    /\ Len(response.body) = 2
    /\ response.body # ret.list
    /\ response.body[1].Size # response.body[2].Size

\* C16: in web page mode the POST is started only by a handler whose scan
\* returned without error; the handler, once it has started the POST, can
\* render whatever the POST does; the return of the POST changes neither
\* the response nor the handler's position; and the page rendered after a
\* scan is the scan's entries sorted and rescaled, whatever became of the
\* POST.
C16_PostDoesNotReachClient ==
    /\ [](post # "none" =>
            /\ mode = "web"
            /\ ret.returned
            /\ ~ret.err
            /\ hpc \in {"posted", "done"})
    /\ [](hpc = "posted" => ENABLED Render)
    /\ [][post' # post /\ post # "none" =>
             response' = response /\ hpc' = hpc]_vars
    /\ []((mode = "web" /\ hpc = "done" /\ ret.returned /\ ~ret.err) =>
            /\ post \in {"inflight", "ok", "failed"}
            /\ response = [status |-> StatusOK, kind |-> "html", msg |-> "",
                           body |-> Rescaled(sortFileList(ret.list, sortType))])

\* The page has been rendered and the POST has not returned.
C16_Witness ==
    /\ mode = "web"
    /\ hpc = "done"
    /\ post = "inflight"
    /\ response.status = StatusOK
    /\ Len(response.body) = 2

-----------------------------------------------------------------------------
(* Properties of the scan below the root, and of its interleavings         *)

\* The directory children of the root whose walk meets an error.
FailedDirs == {q \in Children : fs[q].isDir /\ HasFault(fs, q)}

\* C17: when the root is listable, listDirByReadDir returns nil error
\* whatever fails below the root; every directory child is in the result
\* exactly once, with size 0 when its walk fails; the children that are
\* absent are exactly the files whose metadata cannot be obtained.
C17_ErrorsBelowRootAreAbsorbed ==
    (ret.returned /\ RootListable) =>
        /\ ~ret.err
        /\ \A q \in Children :
              Cardinality(EntriesNamed(ret.list, q[2])) =
                  IF q \in FailedFiles THEN 0 ELSE 1
        /\ \A q \in FailedDirs : \A k \in EntriesNamed(ret.list, q[2]) :
              /\ ret.list[k].Size = 0
              /\ ret.list[k].IsDir
              /\ ret.list[k].Path = q
        /\ \A k \in DOMAIN ret.list : \E q \in Children \ FailedFiles :
              ret.list[k].Name = q[2]

\* The scan has returned a directory with size 0 because its walk failed,
\* and has left out a file whose metadata failed.
C17_Witness ==
    /\ ret.returned
    /\ ~ret.err
    /\ FailedDirs # {}
    /\ FailedFiles # {}
    /\ Len(ret.list) = 1
    /\ ret.list[1].IsDir
    /\ ret.list[1].Size = 0

\* The names of the list, in its order.
NamesOf(list) == [k \in DOMAIN list |-> list[k].Name]

\* The sizes of the list, in its order.
SizesOf(list) == [k \in DOMAIN list |-> list[k].Size]

\* The sorted sizes of the entries the filesystem determines: the listing's
\* entries, in the listing's order, sorted as the request asks.
ExpectedSizes ==
    SizesOf(sortFileList(
        [k \in 1..Len(SelectSeq(Listing(fs, <<rootParam>>),
                                LAMBDA n : <<rootParam, n>> \notin FailedFiles)) |->
            ExpectedEntry(<<rootParam,
                SelectSeq(Listing(fs, <<rootParam>>),
                          LAMBDA n : <<rootParam, n>> \notin FailedFiles)[k]>>)],
        sortType))

\* C19: whatever the interleaving of the tasks, the entries the scan
\* returns are the ones the filesystem determines, each once; and after
\* sortFileList the sequence of sizes is the one the filesystem and the
\* sort type determine.
C19_ResultIndependentOfInterleaving ==
    /\ (ret.returned /\ ~ret.err) =>
          /\ Range(ret.list) = ExpectedEntries
          /\ Len(ret.list) = Cardinality(ExpectedEntries)
    /\ (hpc = "sorted" /\ sortType \in {"asc", "desc"}) =>
          /\ SizesOf(fileList) = ExpectedSizes
          /\ IsPermutation(fileList, ret.list)

\* The tasks appended in the reverse of the listing's order, the sizes
\* differ, and the list has been sorted.
C19_Witness ==
    /\ hpc = "sorted"
    /\ Len(ret.list) = 2
    /\ NamesOf(ret.list) = <<"b", "a">>
    /\ ret.list[1].Size # ret.list[2].Size
    /\ SizesOf(fileList) = ExpectedSizes

-----------------------------------------------------------------------------
(* Properties of the wait group                                            *)

\* The tasks that are launched and have not called wg.Done.
InFlight == {i \in DOMAIN tpc : tpc[i] \notin {"idle", "done", "skipped"}}

\* C18: wg.Add(1) precedes each launch, so the counter is the number of
\* launched tasks that have not called wg.Done, and is never negative; it
\* goes up by one exactly in the step that launches a task and down by one
\* exactly in the step in which a task returns, on the normal path and on
\* the skip path, once per task; and, the size computations being finite
\* and the goroutines being scheduled, a scan that has listed its root
\* reaches counter zero and returns.
C18_WaitGroupBalances ==
    /\ [](wg = Cardinality(InFlight) /\ wg >= 0)
    /\ [][/\ wg' = wg + 1 <=>
               \E i \in DOMAIN tpc : tpc[i] = "idle" /\ tpc'[i] = "run"
          /\ wg' = wg - 1 <=>
               \E i \in DOMAIN tpc : /\ tpc[i] \in {"exit", "skipexit"}
                                     /\ tpc'[i] \in {"done", "skipped"}
          /\ wg' \in {wg - 1, wg, wg + 1}
          /\ \A i \in DOMAIN tpc :
               tpc[i] \in {"done", "skipped"} => tpc'[i] = tpc[i]
         ]_vars
    /\ (hpc = "launch") ~> (ret.returned /\ ~ret.err /\ wg = 0)

\* The scan has returned with the counter at zero after one task took the
\* normal path and the other the skip path, and the handler has moved on.
C18_Witness ==
    /\ hpc = "sorted"
    /\ ret.returned
    /\ wg = 0
    /\ Len(tpc) = 2
    /\ tpc[1] = "skipped"
    /\ tpc[2] = "done"

====
